---- MODULE Spec2Model ----
(***************************************************************************)
(* Model of the campus event backend: register_for_event,                  *)
(* cancel_registration, create_event, update_event, cancel_event,          *)
(* mark_attendance and submit_feedback of src/backend/app.py, the          *)
(* validators of src/backend/utils/validators.py and execute_query of      *)
(* src/database/connection.py. Spec runs the admission workflow,           *)
(* SpecAttendance the check-in, SpecFeedback the feedback and SpecEvents   *)
(* the event operations.                                                   *)
(*                                                                         *)
(* Every execute_query call takes its own pooled connection, runs one      *)
(* statement and commits (or rolls back) before it returns. One            *)
(* execute_query call is therefore one atomic step on the stored tables,   *)
(* and register_for_event, which calls execute_query twice, is two steps   *)
(* that other requests may interleave with. The work of a handler that     *)
(* touches no stored table (parsing, validation, the checks on the row it  *)
(* has read, datetime.now()) is part of the step of the query it follows.  *)
(* The schema file is not part of the sources; what the model needs of it  *)
(* (the uniqueness constraints, the column defaults and the integer        *)
(* rating column) follows the specification.                               *)
(***************************************************************************)
EXTENDS Integers, FiniteSets, Sequences, TLC

\* ---------------------------------------------------------------- bounds
NProcs == 2      \* register_for_event calls that run at the same time
MaxRegs == 3     \* registration rows that can be created
MaxTime == 1     \* the clock runs over 0..MaxTime
MaxCap == 2      \* the max_capacity of events that have one
MaxAttended == 6 \* the largest events_attended a student report is asked for
MaxConn == 1     \* max_conn of the connection pool (20 unless DB_MAX_CONN is set)

\* ------------------------------------------------------------ value sets
NULL == -1       \* SQL NULL / Python None in an integer column

RegIds == 1..MaxRegs

EventIds == {"e1", "e2"}         \* well-formed event identifiers; e2 has no events row
StudentIds == {"s1", "s2", "s3"} \* the students, all with a students row
Missing == ""                    \* a field that is absent or falsy
Malformed == "bad"               \* a string uuid.UUID() rejects

Deadline == MaxTime - 1          \* the registration_deadline of events that have one

\* request bodies of POST /api/register
RegistrationInputs ==
    [event_id : {"e1"}, student_id : StudentIds]
    \cup {[event_id |-> "e2", student_id |-> "s1"],
          [event_id |-> "e1", student_id |-> Missing],
          [event_id |-> Malformed, student_id |-> "s1"]}

\* request bodies that pass validate_registration_data
ValidInputs == [event_id : EventIds, student_id : StudentIds]

\* the limits written in the validators
MaxCommentLen == 1000            \* len(data['comment']) > 1000
MinRating == 1                   \* rating < 1
MaxRating == 5                   \* rating > 5
MaxCapacityLimit == 10000        \* capacity > 10000
Grace == 1                       \* timedelta(hours=1), in clock units

Absent == -2                     \* a numeric field that is not in the request body
MalformedId == 0                 \* an attendance_id that uuid.UUID() rejects
AttendanceIds == 1..MaxRegs      \* well-formed attendance identifiers
valid_methods == {"manual", "qr_code", "rfid"}
Methods == {"manual", "nfc"}   \* the methods of the calls; nfc is not a valid one

\* request bodies of POST /api/attendance
AttendanceInputs ==
    [registration_id : RegIds \cup {Absent}, check_in_method : {Missing, "nfc"}]

\* a mark_attendance call between two of its queries: the query it runs next
AttendanceCalls ==
    [registration_id : RegIds, check_in_method : Methods, step : {"existing", "insert"}]

\* comments are the sequences of their characters
NoComment == <<>>
Good == <<"G", "o", "o", "d">>
Whatever == <<"w", "h", "a", "t", "e", "v", "e", "r">>
Spam == <<"S", "P", "A", "M">>
LongComment == [i \in 1..(MaxCommentLen + 1) |-> "a"]
CommentInputs == {NoComment, Good, Whatever, Spam, LongComment}

\* ratings are JSON numbers, kept in tenths: 55 is the number 5.5
Tenths == 10
RatingInputs == {NULL, 0, 1 * Tenths, 5 * Tenths, 55, 6 * Tenths}

\* request bodies of POST /api/feedback
FeedbackInputs ==
    [attendance_id : AttendanceIds \cup {NULL, MalformedId},
     rating : RatingInputs, comment : {NoComment}]
    \cup [attendance_id : {1}, rating : {0, 5 * Tenths}, comment : CommentInputs]

\* request bodies of POST /api/events and PUT /api/events/<event_id>
BaseBody ==
    [college_id |-> "c1", title |-> "T", event_type |-> "workshop",
     start_datetime |-> MaxTime, end_datetime |-> MaxTime + 1,
     registration_deadline |-> Absent, max_capacity |-> Absent, status |-> Missing]

EventInputs ==
    {BaseBody,
     [BaseBody EXCEPT !.status = "active"],
     [BaseBody EXCEPT !.status = "cancelled"],
     [BaseBody EXCEPT !.max_capacity = MaxCap],
     [BaseBody EXCEPT !.max_capacity = 0],
     [BaseBody EXCEPT !.registration_deadline = Deadline],
     [BaseBody EXCEPT !.registration_deadline = MaxTime],
     [BaseBody EXCEPT !.start_datetime = 0, !.end_datetime = MaxTime],
     [BaseBody EXCEPT !.registration_deadline = MaxTime + 1],
     [BaseBody EXCEPT !.end_datetime = MaxTime],
     [BaseBody EXCEPT !.event_type = "party"],
     [BaseBody EXCEPT !.title = Missing],
     [BaseBody EXCEPT !.college_id = Missing]}

\* ------------------------------------------------------------- responses
Resp(code, error) == [code |-> code, error |-> error]

NoResp == Resp(0, "")
Created == Resp(201, "")
Ok == Resp(200, "")
MissingField == Resp(400, "Missing required field")
InvalidIdFormat == Resp(400, "Invalid ID format")
EventNotFound == Resp(404, "Event not found")
EventInactive == Resp(400, "Event is not active for registration")
DeadlinePassed == Resp(400, "Registration deadline has passed")
CapacityExceeded == Resp(400, "Event is at full capacity")
DuplicateRegistration == Resp(409, "Student is already registered for this event")
UniqueError == Resp(500, "duplicate key value violates unique constraint")
RegistrationNotFound == Resp(404, "Registration not found or already cancelled")
EventNotFoundOrCancelled == Resp(404, "Event not found or already cancelled")
MissingRegistrationId == Resp(400, "Missing registration_id")
RegistrationNotActive == Resp(404, "Registration not found or not active")
AlreadyCheckedIn == Resp(409, "Student is already checked in for this event")
AttendanceNotFound == Resp(404, "Attendance record not found")
InvalidAttendanceId == Resp(400, "Invalid attendance ID format")
InvalidRating == Resp(400, "Rating must be between 1 and 5")
CommentTooLong == Resp(400, "Comment must be 1000 characters or less")
InappropriateComment == Resp(400, "Comment contains inappropriate content")
InvalidEventType == Resp(400, "Invalid event type")
EndNotAfterStart == Resp(400, "End datetime must be after start datetime")
StartInPast == Resp(400, "Event start time cannot be in the past")
DeadlineAfterStart == Resp(400, "Registration deadline must be before event start time")
CapacityNotPositive == Resp(400, "Maximum capacity must be a positive number")
CapacityTooHigh == Resp(400, "Maximum capacity seems unreasonably high (>10,000)")

\* the connection pool
ConnIds == 1..MaxConn                \* the connections the pool can hand out
PoolWorkers == 1..(MaxConn + 1)      \* request threads, one more than connections
QueriesPerRequest == {1, 2}          \* execute_query calls of one request
IdleRequest == [pc |-> "idle", conn |-> NULL, queries |-> 0, putconn |-> 0,
                ended |-> "", resp |-> NoResp]
PoolInit == [used |-> {}, req |-> [w \in PoolWorkers |-> IdleRequest]]

VARIABLES
    events,         \* the events table, a set of rows
    registrations,  \* the registrations table, a set of rows
    attendance,     \* the attendance table, a set of rows
    now,            \* datetime.now() / CURRENT_TIMESTAMP
    pending,        \* per request body: the workers that are in register_for_event
                    \* between its checks and register_query
    last,           \* the call that returned in the latest step, if any
    cancelled_ok,   \* per registration id: cancel_registration calls answered 200
    att_pending,    \* per call: the workers that are in mark_attendance between
                    \* two of its queries
    fb_pending,     \* per request body: the workers that are in submit_feedback
                    \* between check_query and feedback_query
    upd_pending,    \* per request: the workers that are in update_event between
                    \* check_query and update_query
    pool            \* the connection pool: the connections that are checked out
                    \* and, per worker, where it is in execute_query

vars == <<events, registrations, attendance, now, pending, last, cancelled_ok,
          att_pending, fb_pending, upd_pending, pool>>
db == <<events, registrations, attendance>>

NoData == [event_id |-> Missing, student_id |-> Missing]
NoInfo == {}
NoFeedback == [attendance_id |-> NULL, rating |-> NULL, comment |-> NoComment]
\* the fields of a report; -3 stands for a field the response does not carry
NoReport == [registration_count |-> -3, attendance_count |-> -3, avg_rating |-> -3,
             feedback_count |-> -3, attendance_percentage |-> -3,
             events_attended |-> -3, activity_level |-> ""]
NoCall == [op |-> "none", step |-> "", data |-> NoData, registration_id |-> NULL,
           resp |-> NoResp, check_in_method |-> Missing, feedback |-> NoFeedback,
           body |-> BaseBody, report |-> NoReport]

\* the workers that are inside register_for_event
InFlight == Cardinality(UNION {{d} \X (1..pending[d]) : d \in ValidInputs})

\* ----------------------------------------------------------- validators
IsUUID(x) == x \in EventIds \cup StudentIds

validate_registration_data(data) ==
    IF data.event_id = Missing \/ data.student_id = Missing THEN MissingField
    ELSE IF ~IsUUID(data.event_id) \/ ~IsUUID(data.student_id) THEN InvalidIdFormat
    ELSE NoResp

\* str.lower() on the letters the comments use
UpperCase == <<"A", "B", "D", "E", "G", "H", "M", "P", "S", "T">>
LowerCase == <<"a", "b", "d", "e", "g", "h", "m", "p", "s", "t">>
lower(text) ==
    [i \in DOMAIN text |->
        IF \E k \in DOMAIN UpperCase : UpperCase[k] = text[i]
        THEN LowerCase[CHOOSE k \in DOMAIN UpperCase : UpperCase[k] = text[i]]
        ELSE text[i]]

\* word in text, for strings
Contains(text, word) ==
    \E i \in 1..(Len(text) - Len(word) + 1) :
        SubSeq(text, i, i + Len(word) - 1) = word

inappropriate_words ==
    {<<"s", "p", "a", "m">>, <<"h", "a", "t", "e">>, <<"a", "b", "u", "s", "e">>}

\* int() of a JSON number: truncation towards zero (the ratings are not negative)
int(x) == x \div Tenths

\* a validator without the check for inappropriate content
validate_feedback_data_AnyText(data) ==
    IF data.attendance_id = NULL \/ data.rating = NULL THEN MissingField
    ELSE IF data.attendance_id = MalformedId THEN InvalidAttendanceId
    ELSE IF int(data.rating) < MinRating \/ int(data.rating) > MaxRating THEN InvalidRating
    ELSE IF data.comment # NoComment /\ Len(data.comment) > MaxCommentLen THEN CommentTooLong
    ELSE NoResp

validate_feedback_data(data) ==
    IF data.attendance_id = NULL \/ data.rating = NULL THEN MissingField
    ELSE IF data.attendance_id = MalformedId THEN InvalidAttendanceId
    ELSE IF int(data.rating) < MinRating \/ int(data.rating) > MaxRating THEN InvalidRating
    ELSE IF data.comment # NoComment /\ Len(data.comment) > MaxCommentLen THEN CommentTooLong
    ELSE IF data.comment # NoComment
            /\ \E word \in inappropriate_words : Contains(lower(data.comment), word)
         THEN InappropriateComment
    ELSE NoResp

\* request bodies that pass validate_feedback_data
ValidFeedback == {d \in FeedbackInputs : validate_feedback_data(d) = NoResp}

validate_event_data(data, is_update, t) ==
    IF data.title = Missing \/ (~is_update /\ data.college_id = Missing) THEN MissingField
    ELSE IF data.event_type \notin {"hackathon", "workshop", "tech_talk", "fest"}
         THEN InvalidEventType
    ELSE IF data.end_datetime <= data.start_datetime THEN EndNotAfterStart
    ELSE IF data.start_datetime < t - Grace THEN StartInPast
    ELSE IF data.registration_deadline \notin {Absent, NULL}
            /\ data.registration_deadline > data.start_datetime
         THEN DeadlineAfterStart
    ELSE IF data.max_capacity \notin {Absent, NULL} /\ data.max_capacity <= 0
         THEN CapacityNotPositive
    ELSE IF data.max_capacity \notin {Absent, NULL} /\ data.max_capacity > MaxCapacityLimit
         THEN CapacityTooHigh
    ELSE NoResp

\* an update_event call between check_query and the UPDATE
UpdateCalls ==
    [event_id : EventIds,
     body : {d \in EventInputs : \E t \in 0..MaxTime : validate_event_data(d, TRUE, t) = NoResp}]

\* ------------------------------------------------------- stored queries
\* a COUNT whose join leaves out r.status = 'registered'
current_registrations_AllRows(regs, event_id) ==
    Cardinality({r \in regs : r.event_id = event_id})

\* check_query: COUNT over the LEFT JOIN with the status = 'registered' rows
current_registrations(regs, event_id) ==
    Cardinality({r \in regs : r.event_id = event_id /\ r.status = "registered"})

\* check_query with fetch='one': {} is None, otherwise the one row
check_query(evs, regs, event_id) ==
    {[max_capacity |-> e.max_capacity,
      registration_deadline |-> e.registration_deadline,
      status |-> e.status,
      current_registrations |-> current_registrations(regs, event_id)] :
        e \in {x \in evs : x.event_id = event_id}}

\* a store without the uniqueness constraint
UniqueViolation_Absent(regs, event_id, student_id) == FALSE

\* the storage-level uniqueness constraint on registrations
UniqueViolation(regs, event_id, student_id) ==
    \E r \in regs : r.event_id = event_id /\ r.student_id = student_id
                    /\ r.status = "registered"

\* the server-assigned identifier of a new registrations row
NextRegId(regs) == Cardinality(regs) + 1

NewRegistration(regs, event_id, student_id) ==
    [registration_id |-> NextRegId(regs), event_id |-> event_id,
     student_id |-> student_id, status |-> "registered",
     cancelled_at |-> NULL, cancellation_reason |-> ""]

\* ------------------------------------------------------------------ Init
EventRows ==
    [event_id : {"e1"}, status : {"active"},
     start_datetime : {MaxTime}, end_datetime : {MaxTime + 1},
     max_capacity : {NULL, MaxCap},
     registration_deadline : {NULL, Deadline}]

Init ==
    /\ \E e \in EventRows : events = {e}
    /\ registrations = {}
    /\ attendance = {}
    /\ now = 0
    /\ pending = [d \in ValidInputs |-> 0]
    /\ last = NoCall
    /\ cancelled_ok = [r \in RegIds |-> 0]
    /\ att_pending = [c \in AttendanceCalls |-> 0]
    /\ fb_pending = [d \in ValidFeedback |-> 0]
    /\ upd_pending = [c \in UpdateCalls |-> 0]
    /\ pool = PoolInit

\* --------------------------------------------------------------- actions
\* the checks with the capacity check moved before the deadline check
AdmissionCheck_CapacityFirst(info, t) ==
    IF info = NoInfo THEN EventNotFound
    ELSE LET i == CHOOSE x \in info : TRUE
         IN IF i.status # "active" THEN EventInactive
            ELSE IF i.max_capacity # NULL /\ i.max_capacity # 0
                    /\ i.current_registrations >= i.max_capacity
                 THEN CapacityExceeded
            ELSE IF i.registration_deadline # NULL /\ t > i.registration_deadline
                 THEN DeadlinePassed
            ELSE NoResp

\* the checks with datetime.now() >= registration_deadline
AdmissionCheck_DeadlineInclusive(info, t) ==
    IF info = NoInfo THEN EventNotFound
    ELSE LET i == CHOOSE x \in info : TRUE
         IN IF i.status # "active" THEN EventInactive
            ELSE IF i.registration_deadline # NULL /\ t >= i.registration_deadline
                 THEN DeadlinePassed
            ELSE IF i.max_capacity # NULL /\ i.max_capacity # 0
                    /\ i.current_registrations >= i.max_capacity
                 THEN CapacityExceeded
            ELSE NoResp

\* register_for_event: the checks between check_query and register_query
AdmissionCheck(info, t) ==
    IF info = NoInfo THEN EventNotFound
    ELSE LET i == CHOOSE x \in info : TRUE
         IN IF i.status # "active" THEN EventInactive
            ELSE IF i.registration_deadline # NULL /\ t > i.registration_deadline
                 THEN DeadlinePassed
            ELSE IF i.max_capacity # NULL /\ i.max_capacity # 0
                    /\ i.current_registrations >= i.max_capacity
                 THEN CapacityExceeded
            ELSE NoResp

\* a handler that runs register_query before it looks at the capacity
Register_InsertBeforeCheck(data) ==
    /\ last = NoCall
    /\ InFlight < NProcs
    /\ LET v == validate_registration_data(data)
           info == check_query(events, registrations, data.event_id)
           r == IF v # NoResp THEN v ELSE AdmissionCheck(info, now)
       IN IF r # NoResp
          THEN /\ last' = [NoCall EXCEPT !.op = "register", !.data = data, !.resp = r,
                                         !.step = IF v # NoResp THEN "validate" ELSE "check"]
               /\ registrations' =
                    IF r = CapacityExceeded /\ Cardinality(registrations) + InFlight < MaxRegs
                       /\ ~\E x \in registrations : /\ x.event_id = data.event_id
                                                    /\ x.student_id = data.student_id
                                                    /\ x.status = "registered"
                    THEN registrations \cup
                         {[registration_id |-> Cardinality(registrations) + 1,
                           event_id |-> data.event_id, student_id |-> data.student_id,
                           status |-> "registered", cancelled_at |-> NULL,
                           cancellation_reason |-> ""]}
                    ELSE registrations
               /\ UNCHANGED pending
          ELSE /\ Cardinality(registrations) + InFlight < MaxRegs
               /\ pending' = [pending EXCEPT ![data] = @ + 1]
               /\ UNCHANGED last
               /\ UNCHANGED registrations
    /\ UNCHANGED <<events, attendance, now, cancelled_ok,
                 att_pending, fb_pending, upd_pending, pool>>

\* register_for_event up to its first return or to register_query:
\* validation, execute_query(check_query, fetch='one') and the checks.
\* A call that goes on to register_query is counted in pending; the number of
\* such calls is bounded by NProcs and by the rows that can still be created.
Register(data) ==
    /\ last = NoCall
    /\ InFlight < NProcs
    /\ LET v == validate_registration_data(data)
           info == check_query(events, registrations, data.event_id)
           r == IF v # NoResp THEN v ELSE AdmissionCheck(info, now)
       IN IF r # NoResp
          THEN /\ last' = [NoCall EXCEPT !.op = "register", !.data = data, !.resp = r,
                                         !.step = IF v # NoResp THEN "validate" ELSE "check"]
               /\ UNCHANGED pending
          ELSE /\ Cardinality(registrations) + InFlight < MaxRegs
               /\ pending' = [pending EXCEPT ![data] = @ + 1]
               /\ UNCHANGED last
    /\ UNCHANGED <<events, registrations, attendance, now, cancelled_ok,
                 att_pending, fb_pending, upd_pending, pool>>

\* an except clause without the 'duplicate key value' branch
RegisterExcept_Generic(e) == e

\* register_for_event: the except clause
RegisterExcept(e) ==
    IF e = UniqueError THEN DuplicateRegistration ELSE e

\* a register_query that sets a cancelled row of the pair back to 'registered'
RegisterInsert_Reactivate(data) ==
    /\ last = NoCall
    /\ pending[data] > 0
    /\ LET e == data.event_id
           s == data.student_id
           old == {x \in registrations : x.event_id = e /\ x.student_id = s
                                         /\ x.status = "cancelled"}
           r == IF UniqueViolation(registrations, e, s) THEN DuplicateRegistration
                ELSE Created
       IN /\ registrations' =
               IF r # Created THEN registrations
               ELSE IF old # {}
               THEN LET o == CHOOSE x \in old : TRUE
                    IN (registrations \ {o}) \cup
                       {[o EXCEPT !.status = "registered", !.cancelled_at = NULL,
                                  !.cancellation_reason = ""]}
               ELSE registrations \cup {NewRegistration(registrations, e, s)}
          /\ last' = [NoCall EXCEPT !.op = "register", !.step = "insert",
                                    !.data = data, !.resp = r]
    /\ pending' = [pending EXCEPT ![data] = @ - 1]
    /\ UNCHANGED <<events, attendance, now, cancelled_ok,
                 att_pending, fb_pending, upd_pending, pool>>

\* register_for_event: execute_query(register_query, fetch='one') and the
\* return; a statement that raises is rolled back by execute_query
RegisterInsert(data) ==
    /\ last = NoCall
    /\ pending[data] > 0
    /\ LET e == data.event_id
           s == data.student_id
           r == IF UniqueViolation(registrations, e, s) THEN RegisterExcept(UniqueError)
                ELSE Created
       IN /\ registrations' = IF r = Created
                              THEN registrations \cup {NewRegistration(registrations, e, s)}
                              ELSE registrations
          /\ last' = [NoCall EXCEPT !.op = "register", !.step = "insert",
                                    !.data = data, !.resp = r]
    /\ pending' = [pending EXCEPT ![data] = @ - 1]
    /\ UNCHANGED <<events, attendance, now, cancelled_ok,
                 att_pending, fb_pending, upd_pending, pool>>

\* an UPDATE whose WHERE clause leaves out status = 'registered'
CancelRegistration_AnyStatus(registration_id) ==
    /\ last = NoCall
    /\ LET hit == {r \in registrations : r.registration_id = registration_id}
       IN /\ registrations' = (registrations \ hit) \cup
                 {[r EXCEPT !.status = "cancelled", !.cancelled_at = now,
                            !.cancellation_reason = "Cancelled by user"] : r \in hit}
          /\ cancelled_ok' = IF hit # {}
                             THEN [cancelled_ok EXCEPT ![registration_id] = @ + 1]
                             ELSE cancelled_ok
          /\ last' = [NoCall EXCEPT !.op = "cancel_registration",
                                    !.registration_id = registration_id,
                                    !.resp = IF hit # {} THEN Ok ELSE RegistrationNotFound]
    /\ UNCHANGED <<events, attendance, now, pending,
                 att_pending, fb_pending, upd_pending, pool>>

\* cancel_registration: one UPDATE ... WHERE status = 'registered' RETURNING
CancelRegistration(registration_id) ==
    /\ last = NoCall
    /\ LET hit == {r \in registrations : r.registration_id = registration_id
                                         /\ r.status = "registered"}
       IN /\ registrations' = (registrations \ hit) \cup
                 {[r EXCEPT !.status = "cancelled", !.cancelled_at = now,
                            !.cancellation_reason = "Cancelled by user"] : r \in hit}
          /\ cancelled_ok' = IF hit # {}
                             THEN [cancelled_ok EXCEPT ![registration_id] = @ + 1]
                             ELSE cancelled_ok
          /\ last' = [NoCall EXCEPT !.op = "cancel_registration",
                                    !.registration_id = registration_id,
                                    !.resp = IF hit # {} THEN Ok ELSE RegistrationNotFound]
    /\ UNCHANGED <<events, attendance, now, pending,
                 att_pending, fb_pending, upd_pending, pool>>

\* a cancel_event that also cancels the registrations of the event
CancelEvent_Cascade(event_id) ==
    /\ last = NoCall
    /\ LET hit == {e \in events : e.event_id = event_id /\ e.status = "active"}
           regs == {r \in registrations : r.event_id = event_id /\ hit # {}}
       IN /\ events' = (events \ hit) \cup {[e EXCEPT !.status = "cancelled"] : e \in hit}
          /\ registrations' = (registrations \ regs) \cup
                 {[r EXCEPT !.status = "cancelled"] : r \in regs}
          /\ last' = [NoCall EXCEPT !.op = "cancel_event", !.data.event_id = event_id,
                                    !.resp = IF hit # {} THEN Ok ELSE EventNotFoundOrCancelled]
    /\ UNCHANGED <<attendance, now, pending, cancelled_ok,
                   att_pending, fb_pending, upd_pending, pool>>

\* cancel_event: one UPDATE ... WHERE status = 'active' RETURNING
CancelEvent(event_id) ==
    /\ last = NoCall
    /\ LET hit == {e \in events : e.event_id = event_id /\ e.status = "active"}
       IN /\ events' = (events \ hit) \cup {[e EXCEPT !.status = "cancelled"] : e \in hit}
          /\ last' = [NoCall EXCEPT !.op = "cancel_event", !.data.event_id = event_id,
                                    !.resp = IF hit # {} THEN Ok ELSE EventNotFoundOrCancelled]
    /\ UNCHANGED <<registrations, attendance, now, pending, cancelled_ok,
                 att_pending, fb_pending, upd_pending, pool>>

\* return jsonify(...): the response of the latest step has been sent. The
\* steps of the handlers wait for it, so that every response is observed in
\* one state of its own; responses carry no state the handlers read.
Return ==
    /\ last # NoCall
    /\ last' = NoCall
    /\ UNCHANGED <<events, registrations, attendance, now, pending, cancelled_ok,
                 att_pending, fb_pending, upd_pending, pool>>

\* time passes
Tick ==
    /\ now < MaxTime
    /\ last = NoCall
    /\ now' = now + 1
    /\ UNCHANGED last
    /\ UNCHANGED <<events, registrations, attendance, pending, cancelled_ok,
                 att_pending, fb_pending, upd_pending, pool>>

Next ==
    \/ \E d \in RegistrationInputs : Register(d)
    \/ \E d \in ValidInputs : RegisterInsert(d)
    \/ \E r \in RegIds : CancelRegistration(r)
    \/ \E e \in EventIds : CancelEvent(e)
    \/ Return
    \/ Tick

Spec == Init /\ [][Next]_vars

\* ------------------------------------------------------------ attendance
NullComment == <<"NULL">>        \* SQL NULL in the feedback_comment column

\* the workers that are inside mark_attendance
AttInFlight == Cardinality(UNION {{c} \X (1..att_pending[c]) : c \in AttendanceCalls})

\* a check_query without r.status = 'registered'
registration_check_AnyStatus(regs, evs, registration_id) ==
    {r \in regs : /\ r.registration_id = registration_id
                  /\ \E e \in evs : e.event_id = r.event_id}

\* mark_attendance: check_query with fetch='one'; every student has a row
registration_check(regs, evs, registration_id) ==
    {r \in regs : /\ r.registration_id = registration_id
                  /\ r.status = "registered"
                  /\ \E e \in evs : e.event_id = r.event_id}

\* SELECT attendance_id FROM attendance WHERE registration_id = %s
existing_attendance(att, registration_id) ==
    {a \in att : a.registration_id = registration_id}

\* a store without the uniqueness constraint on attendance.registration_id
AttendanceUniqueViolation_Absent(att, registration_id) == FALSE

\* the storage-level uniqueness of attendance.registration_id
AttendanceUniqueViolation(att, registration_id) ==
    \E a \in att : a.registration_id = registration_id

\* the server-assigned identifier of a new attendance row
NextAttendanceId(att) == Cardinality(att) + 1

NewAttendance(att, registration_id, check_in_method, t) ==
    [attendance_id |-> NextAttendanceId(att), registration_id |-> registration_id,
     check_in_method |-> check_in_method, checked_in_at |-> t,
     feedback_rating |-> NULL, feedback_comment |-> NullComment,
     feedback_submitted_at |-> NULL]

\* the registrations the sample data script inserts: students s1 and s2 in e1
SeedRegistrations ==
    {[registration_id |-> 1, event_id |-> "e1", student_id |-> "s1",
      status |-> "registered", cancelled_at |-> NULL, cancellation_reason |-> ""],
     [registration_id |-> 2, event_id |-> "e1", student_id |-> "s2",
      status |-> "registered", cancelled_at |-> NULL, cancellation_reason |-> ""]}

\* the store after the sample data script inserted an event without capacity
\* and deadline and its registrations
InitSeeded ==
    /\ events = {e \in EventRows : e.max_capacity = NULL /\ e.registration_deadline = NULL}
    /\ registrations = SeedRegistrations
    /\ attendance = {}
    /\ now = 0
    /\ pending = [d \in ValidInputs |-> 0]
    /\ last = NoCall
    /\ cancelled_ok = [r \in RegIds |-> 0]
    /\ att_pending = [c \in AttendanceCalls |-> 0]
    /\ fb_pending = [d \in ValidFeedback |-> 0]
    /\ upd_pending = [c \in UpdateCalls |-> 0]
    /\ pool = PoolInit

\* mark_attendance: data.get('check_in_method', 'manual')
CheckInMethod(data) ==
    IF data.check_in_method = Missing THEN "manual" ELSE data.check_in_method

\* mark_attendance up to the return after check_query
MarkAttendance(data) ==
    /\ last = NoCall
    /\ AttInFlight < NProcs
    /\ LET id == data.registration_id
           r == IF id = Absent THEN MissingRegistrationId
                ELSE IF registration_check(registrations, events, id) = {}
                THEN RegistrationNotActive
                ELSE NoResp
       IN IF r # NoResp
          THEN /\ last' = [NoCall EXCEPT !.op = "mark_attendance", !.step = "check",
                                         !.registration_id = id,
                                         !.check_in_method = CheckInMethod(data),
                                         !.resp = r]
               /\ UNCHANGED att_pending
          ELSE /\ att_pending' =
                    [att_pending EXCEPT ![[registration_id |-> id,
                                           check_in_method |-> CheckInMethod(data),
                                           step |-> "existing"]] = @ + 1]
               /\ UNCHANGED last
    /\ UNCHANGED <<events, registrations, attendance, now, pending, cancelled_ok,
                   fb_pending, upd_pending, pool>>

\* mark_attendance: the existing_attendance query and the 409 after it
MarkAttendanceExisting(c) ==
    /\ last = NoCall
    /\ c.step = "existing"
    /\ att_pending[c] > 0
    /\ IF existing_attendance(attendance, c.registration_id) # {}
       THEN /\ last' = [NoCall EXCEPT !.op = "mark_attendance", !.step = "existing",
                                      !.registration_id = c.registration_id,
                                      !.check_in_method = c.check_in_method,
                                      !.resp = AlreadyCheckedIn]
            /\ att_pending' = [att_pending EXCEPT ![c] = @ - 1]
       ELSE /\ att_pending' = [att_pending EXCEPT ![c] = @ - 1,
                                                  ![[c EXCEPT !.step = "insert"]] = @ + 1]
            /\ UNCHANGED last
    /\ UNCHANGED <<events, registrations, attendance, now, pending, cancelled_ok,
                   fb_pending, upd_pending, pool>>

\* mark_attendance: the except clause, str(e) with status 500
MarkAttendanceExcept(e) == Resp(500, e.error)

\* mark_attendance: execute_query(attendance_query, fetch='one') and the
\* return; a statement that raises is rolled back by execute_query
MarkAttendanceInsert(c) ==
    /\ last = NoCall
    /\ c.step = "insert"
    /\ att_pending[c] > 0
    /\ LET r == IF AttendanceUniqueViolation(attendance, c.registration_id)
                THEN MarkAttendanceExcept(UniqueError)
                ELSE Created
       IN /\ attendance' =
               IF r = Created
               THEN attendance \cup {NewAttendance(attendance, c.registration_id,
                                                   c.check_in_method, now)}
               ELSE attendance
          /\ last' = [NoCall EXCEPT !.op = "mark_attendance", !.step = "insert",
                                    !.registration_id = c.registration_id,
                                    !.check_in_method = c.check_in_method,
                                    !.resp = r]
    /\ att_pending' = [att_pending EXCEPT ![c] = @ - 1]
    /\ UNCHANGED <<events, registrations, now, pending, cancelled_ok,
                   fb_pending, upd_pending, pool>>

NextAttendance ==
    \/ \E d \in AttendanceInputs : MarkAttendance(d)
    \/ \E c \in AttendanceCalls : MarkAttendanceExisting(c)
    \/ \E c \in AttendanceCalls : MarkAttendanceInsert(c)
    \/ \E r \in RegIds : CancelRegistration(r)
    \/ Return

SpecAttendance == InitSeeded /\ [][NextAttendance]_vars

\* -------------------------------------------------------------- feedback
\* the workers that are inside submit_feedback
FbInFlight == Cardinality(UNION {{d} \X (1..fb_pending[d]) : d \in ValidFeedback})

\* submit_feedback: check_query with fetch='one'
feedback_check(att, regs, evs, attendance_id) ==
    {a \in att : /\ a.attendance_id = attendance_id
                 /\ \E r \in regs : /\ r.registration_id = a.registration_id
                                    /\ \E e \in evs : e.event_id = r.event_id}

\* the value an integer column takes from a JSON number: rounded to the
\* nearest integer
IntegerColumn(x) == (x + (Tenths \div 2)) \div Tenths

\* submit_feedback up to the return after check_query
SubmitFeedback(data) ==
    /\ last = NoCall
    /\ FbInFlight < NProcs
    /\ LET v == validate_feedback_data(data)
           r == IF v # NoResp THEN v
                ELSE IF feedback_check(attendance, registrations, events,
                                       data.attendance_id) = {}
                THEN AttendanceNotFound
                ELSE NoResp
       IN IF r # NoResp
          THEN /\ last' = [NoCall EXCEPT !.op = "submit_feedback", !.feedback = data,
                                         !.resp = r,
                                         !.step = IF v # NoResp THEN "validate" ELSE "check"]
               /\ UNCHANGED fb_pending
          ELSE /\ fb_pending' = [fb_pending EXCEPT ![data] = @ + 1]
               /\ UNCHANGED last
    /\ UNCHANGED <<events, registrations, attendance, now, pending, cancelled_ok,
                   att_pending, upd_pending, pool>>

\* a feedback_query that sets the rating and leaves the comment as it is
SubmitFeedbackUpdate_RatingOnly(data) ==
    /\ last = NoCall
    /\ fb_pending[data] > 0
    /\ LET hit == {a \in attendance : a.attendance_id = data.attendance_id}
       IN /\ attendance' = (attendance \ hit) \cup
                 {[a EXCEPT !.feedback_rating = IntegerColumn(data.rating),
                            !.feedback_submitted_at = now] : a \in hit}
          /\ last' = [NoCall EXCEPT !.op = "submit_feedback", !.step = "update",
                                    !.feedback = data,
                                    !.resp = IF hit # {} THEN Ok
                                             ELSE Resp(500, "Failed to submit feedback")]
    /\ fb_pending' = [fb_pending EXCEPT ![data] = @ - 1]
    /\ UNCHANGED <<events, registrations, now, pending, cancelled_ok,
                   att_pending, upd_pending, pool>>

\* submit_feedback: execute_query(feedback_query, fetch='one') and the return
SubmitFeedbackUpdate(data) ==
    /\ last = NoCall
    /\ fb_pending[data] > 0
    /\ LET hit == {a \in attendance : a.attendance_id = data.attendance_id}
       IN /\ attendance' = (attendance \ hit) \cup
                 {[a EXCEPT !.feedback_rating = IntegerColumn(data.rating),
                            !.feedback_comment = data.comment,
                            !.feedback_submitted_at = now] : a \in hit}
          /\ last' = [NoCall EXCEPT !.op = "submit_feedback", !.step = "update",
                                    !.feedback = data,
                                    !.resp = IF hit # {} THEN Ok
                                             ELSE Resp(500, "Failed to submit feedback")]
    /\ fb_pending' = [fb_pending EXCEPT ![data] = @ - 1]
    /\ UNCHANGED <<events, registrations, now, pending, cancelled_ok,
                   att_pending, upd_pending, pool>>

\* the check-in requests of the runs that look at feedback
CheckInInputs == {d \in AttendanceInputs : d.registration_id = 1 /\ d.check_in_method = Missing}

NextFeedback ==
    \/ \E d \in CheckInInputs : MarkAttendance(d)
    \/ \E c \in AttendanceCalls : MarkAttendanceExisting(c)
    \/ \E c \in AttendanceCalls : MarkAttendanceInsert(c)
    \/ \E d \in FeedbackInputs : SubmitFeedback(d)
    \/ \E d \in ValidFeedback : SubmitFeedbackUpdate(d)
    \/ \E e \in EventIds : CancelEvent(e)
    \/ Return

SpecFeedback == InitSeeded /\ [][NextFeedback]_vars

\* ---------------------------------------------------------------- events
\* the workers that are inside update_event
UpdInFlight == Cardinality(UNION {{c} \X (1..upd_pending[c]) : c \in UpdateCalls})

\* data.get(field): None for a field that is not in the body
Get(value) == IF value = Absent THEN NULL ELSE value

\* the server-assigned identifier of a new events row
NextEventId(evs) == CHOOSE id \in EventIds : \A e \in evs : e.event_id # id

\* the row the INSERT of create_event stores; status takes the column default
NewEvent(evs, body) ==
    [event_id |-> NextEventId(evs), status |-> "active",
     start_datetime |-> body.start_datetime, end_datetime |-> body.end_datetime,
     max_capacity |-> Get(body.max_capacity),
     registration_deadline |-> Get(body.registration_deadline)]

\* create_event: validation, INSERT and the return
CreateEvent(body) ==
    /\ last = NoCall
    /\ \E id \in EventIds : \A e \in events : e.event_id # id
    /\ LET v == validate_event_data(body, FALSE, now)
       IN /\ events' = IF v = NoResp THEN events \cup {NewEvent(events, body)} ELSE events
          /\ last' = [NoCall EXCEPT !.op = "create_event", !.body = body,
                                    !.step = IF v = NoResp THEN "insert" ELSE "validate",
                                    !.resp = IF v = NoResp THEN Created ELSE v]
    /\ UNCHANGED <<registrations, attendance, now, pending, cancelled_ok,
                   att_pending, fb_pending, upd_pending, pool>>

\* update_event up to the return after the SELECT of the event
UpdateEvent(event_id, body) ==
    /\ last = NoCall
    /\ UpdInFlight < NProcs
    /\ LET v == validate_event_data(body, TRUE, now)
           r == IF v # NoResp THEN v
                ELSE IF ~\E e \in events : e.event_id = event_id THEN EventNotFound
                ELSE NoResp
       IN IF r # NoResp
          THEN /\ last' = [NoCall EXCEPT !.op = "update_event", !.body = body,
                                         !.data.event_id = event_id, !.resp = r,
                                         !.step = IF v # NoResp THEN "validate" ELSE "check"]
               /\ UNCHANGED upd_pending
          ELSE /\ upd_pending' =
                    [upd_pending EXCEPT ![[event_id |-> event_id, body |-> body]] = @ + 1]
               /\ UNCHANGED last
    /\ UNCHANGED <<events, registrations, attendance, now, pending, cancelled_ok,
                   att_pending, fb_pending, pool>>

\* the row after SET field = value for every updatable field in the body
UpdatedEvent(e, body) ==
    [e EXCEPT !.start_datetime = body.start_datetime,
              !.end_datetime = body.end_datetime,
              !.max_capacity = IF body.max_capacity = Absent THEN @
                               ELSE body.max_capacity,
              !.registration_deadline = IF body.registration_deadline = Absent THEN @
                                        ELSE body.registration_deadline,
              !.status = IF body.status = Missing THEN @ ELSE body.status]

\* update_event: the UPDATE built from updatable_fields and the return
UpdateEventSet(c) ==
    /\ last = NoCall
    /\ upd_pending[c] > 0
    /\ LET hit == {e \in events : e.event_id = c.event_id}
       IN /\ events' = (events \ hit) \cup {UpdatedEvent(e, c.body) : e \in hit}
          /\ last' = [NoCall EXCEPT !.op = "update_event", !.step = "update",
                                    !.body = c.body, !.data.event_id = c.event_id,
                                    !.resp = IF hit # {} THEN Ok
                                             ELSE Resp(500, "Failed to update event")]
    /\ upd_pending' = [upd_pending EXCEPT ![c] = @ - 1]
    /\ UNCHANGED <<registrations, attendance, now, pending, cancelled_ok,
                   att_pending, fb_pending, pool>>

NextEvents ==
    \/ \E b \in EventInputs : CreateEvent(b)
    \/ \E e \in EventIds, b \in EventInputs : UpdateEvent(e, b)
    \/ \E c \in UpdateCalls : UpdateEventSet(c)
    \/ \E e \in EventIds : CancelEvent(e)
    \/ Return

SpecEvents == Init /\ [][NextEvents]_vars

\* no call is between two of its queries: the next call starts after the
\* one before it has returned
NoCallInFlight == InFlight = 0 /\ UpdInFlight = 0

\* the update_event bodies that carry a max_capacity
CapacityBodies == {b \in EventInputs : b.max_capacity # Absent}

\* register_for_event, cancel_registration and update_event, one call after
\* the other
NextSequential ==
    \/ \E d \in RegistrationInputs : NoCallInFlight /\ Register(d)
    \/ \E d \in ValidInputs : RegisterInsert(d)
    \/ \E r \in RegIds : NoCallInFlight /\ CancelRegistration(r)
    \/ \E e \in EventIds, b \in CapacityBodies : NoCallInFlight /\ UpdateEvent(e, b)
    \/ \E c \in UpdateCalls : UpdateEventSet(c)
    \/ Return

SpecSequential == Init /\ [][NextSequential]_vars

\* --------------------------------------------------------------- reports
\* the fourth student of the sample data; the requests of the model name
\* only StudentIds
ReportStudents == <<"s1", "s2", "s3", "s4">>
ReportRatings == {NULL, 4, 5}       \* feedback_rating of a sample attendance row

\* the result of a LEFT JOIN for a registration without an attendance row
NoAttendance ==
    [attendance_id |-> NULL, registration_id |-> NULL, check_in_method |-> "",
     checked_in_at |-> NULL, feedback_rating |-> NULL, feedback_comment |-> NullComment,
     feedback_submitted_at |-> NULL]

\* insert_registrations: one 'registered' row per student in e1
SampleRegistrations ==
    {[registration_id |-> i, event_id |-> "e1", student_id |-> ReportStudents[i],
      status |-> "registered", cancelled_at |-> NULL, cancellation_reason |-> ""]
       : i \in 1..Len(ReportStudents)}

\* insert_attendance_and_feedback: the attendance rows of the registrations
\* in present, numbered in the order of insertion, with the ratings of rating
SampleAttendance(present, rating) ==
    {[attendance_id |-> Cardinality({j \in present : j <= i}), registration_id |-> i,
      check_in_method |-> "manual", checked_in_at |-> 0,
      feedback_rating |-> rating[i], feedback_comment |-> NullComment,
      feedback_submitted_at |-> IF rating[i] = NULL THEN NULL ELSE 0] : i \in present}

\* the store after the sample data script ran
InitReports ==
    /\ events = {e \in EventRows : e.max_capacity = NULL /\ e.registration_deadline = NULL}
    /\ registrations = SampleRegistrations
    /\ \E present \in SUBSET (1..Len(ReportStudents)) :
          \E rating \in [1..Len(ReportStudents) -> ReportRatings] :
             /\ \A i \in 1..Len(ReportStudents) : i \notin present => rating[i] = NULL
             /\ attendance = SampleAttendance(present, rating)
    /\ now = 0
    /\ pending = [d \in ValidInputs |-> 0]
    /\ last = NoCall
    /\ cancelled_ok = [r \in RegIds |-> 0]
    /\ att_pending = [c \in AttendanceCalls |-> 0]
    /\ fb_pending = [d \in ValidFeedback |-> 0]
    /\ upd_pending = [c \in UpdateCalls |-> 0]
    /\ pool = PoolInit

\* FROM events e LEFT JOIN registrations r LEFT JOIN attendance a WHERE
\* e.event_id = %s: the joined rows of an event that exists
EventJoin(regs, att, event_id) ==
    LET rs == {r \in regs : r.event_id = event_id}
    IN {x \in [r : rs, a : att] : x.a.registration_id = x.r.registration_id}
       \cup {[r |-> r, a |-> NoAttendance] :
                r \in {x \in rs : \A a \in att : a.registration_id # x.registration_id}}

\* SUM(a.feedback_rating) over joined rows; NULL ratings are skipped
RECURSIVE SumRating(_)
SumRating(rows) ==
    IF rows = {} THEN 0
    ELSE LET x == CHOOSE y \in rows : TRUE
         IN (IF x.a.feedback_rating = NULL THEN 0 ELSE x.a.feedback_rating)
            + SumRating(rows \ {x})

\* ROUND(n / d, 2) of a numeric, in hundredths
Round2(n, d) == (200 * n + d) \div (2 * d)

\* an average that counts a NULL rating as 0
avg_rating_NullAsZero(rows) ==
    LET rated == {x \in rows : x.a # NoAttendance}
    IN IF {x \in rows : x.a.feedback_rating # NULL} = {} THEN NULL
       ELSE Round2(SumRating(rated), Cardinality(rated))

\* ROUND(AVG(a.feedback_rating), 2), in hundredths; NULL without a rating
avg_rating(rows) ==
    LET rated == {x \in rows : x.a.feedback_rating # NULL}
    IN IF rated = {} THEN NULL ELSE Round2(SumRating(rated), Cardinality(rated))

\* COUNT(DISTINCT CASE WHEN r.status = 'registered' THEN r.registration_id END)
registration_count(rows) ==
    Cardinality({x.r.registration_id : x \in {y \in rows : y.r.status = "registered"}})

\* COUNT(DISTINCT a.attendance_id)
attendance_count(rows) ==
    Cardinality({x.a.attendance_id : x \in {y \in rows : y.a.attendance_id # NULL}})

\* COUNT(DISTINCT CASE WHEN a.feedback_rating IS NOT NULL THEN a.attendance_id END)
feedback_count(rows) ==
    Cardinality({x.a.attendance_id : x \in {y \in rows : y.a.feedback_rating # NULL}})

\* round(attended / registered * 100, 2), in hundredths of a percent
calculate_attendance_percentage(attended, registered) ==
    IF registered = 0 THEN 0 ELSE Round2(attended * 100, registered)

\* the aggregates of the event query and the percentage computed from them
EventReport(regs, att, event_id) ==
    LET rows == EventJoin(regs, att, event_id)
    IN [NoReport EXCEPT
          !.registration_count = registration_count(rows),
          !.attendance_count = attendance_count(rows),
          !.avg_rating = avg_rating(rows),
          !.feedback_count = feedback_count(rows),
          !.attendance_percentage =
              calculate_attendance_percentage(attendance_count(rows),
                                              registration_count(rows))]

\* get_event: the query, the percentage and the return
GetEvent(event_id) ==
    /\ last = NoCall
    /\ last' = IF \E e \in events : e.event_id = event_id
               THEN [NoCall EXCEPT !.op = "get_event", !.data.event_id = event_id,
                                   !.resp = Ok,
                                   !.report = EventReport(registrations, attendance, event_id)]
               ELSE [NoCall EXCEPT !.op = "get_event", !.data.event_id = event_id,
                                   !.resp = EventNotFound]
    /\ UNCHANGED <<events, registrations, attendance, now, pending, cancelled_ok,
                   att_pending, fb_pending, upd_pending, pool>>

\* get_event_stats: the query, the percentage and the return
GetEventStats(event_id) ==
    /\ last = NoCall
    /\ last' = IF \E e \in events : e.event_id = event_id
               THEN [NoCall EXCEPT !.op = "get_event_stats", !.data.event_id = event_id,
                                   !.resp = Ok,
                                   !.report = EventReport(registrations, attendance, event_id)]
               ELSE [NoCall EXCEPT !.op = "get_event_stats", !.data.event_id = event_id,
                                   !.resp = EventNotFound]
    /\ UNCHANGED <<events, registrations, attendance, now, pending, cancelled_ok,
                   att_pending, fb_pending, upd_pending, pool>>

\* the values COUNT(DISTINCT a.attendance_id) of a student can take; NULL is
\* the unset value that 'or 0' covers
EventsAttended == {NULL} \cup (0..MaxAttended)

\* an activity level whose lowest level reaches up to one attended event
activity_level_FromTwo(n) ==
    LET events_attended == IF n = NULL THEN 0 ELSE n
    IN IF events_attended >= 5 THEN "highly_active"
       ELSE IF events_attended >= 3 THEN "active"
       ELSE IF events_attended >= 2 THEN "moderately_active"
       ELSE "inactive"

\* get_student_activity_summary: events_attended = ... or 0 and the levels
activity_level(n) ==
    LET events_attended == IF n = NULL THEN 0 ELSE n
    IN IF events_attended >= 5 THEN "highly_active"
       ELSE IF events_attended >= 3 THEN "active"
       ELSE IF events_attended >= 1 THEN "moderately_active"
       ELSE "inactive"

\* get_student_activity_summary for a student whose query result carries
\* events_attended = n
GetStudentActivity(n) ==
    /\ last = NoCall
    /\ last' = [NoCall EXCEPT !.op = "student_activity", !.resp = Ok,
                              !.report.events_attended = n,
                              !.report.activity_level = activity_level(n)]
    /\ UNCHANGED <<events, registrations, attendance, now, pending, cancelled_ok,
                   att_pending, fb_pending, upd_pending, pool>>

NextReports ==
    \/ \E r \in RegIds : CancelRegistration(r)
    \/ \E e \in EventIds : GetEvent(e)
    \/ \E e \in EventIds : GetEventStats(e)
    \/ \E n \in EventsAttended : GetStudentActivity(n)
    \/ Return

SpecReports == InitReports /\ [][NextReports]_vars

\* the check-in requests of the runs that read the reports
ReportCheckIns == {d \in AttendanceInputs : d.registration_id \in {1, 2}
                                           /\ d.check_in_method = Missing}

\* the reports of an event while students check in and cancel
NextAttendanceReports ==
    \/ \E d \in ReportCheckIns : MarkAttendance(d)
    \/ \E c \in AttendanceCalls : MarkAttendanceExisting(c)
    \/ \E c \in AttendanceCalls : MarkAttendanceInsert(c)
    \/ \E r \in RegIds : CancelRegistration(r)
    \/ \E e \in EventIds : GetEvent(e)
    \/ \E e \in EventIds : GetEventStats(e)
    \/ Return

SpecAttendanceReports == InitSeeded /\ [][NextAttendanceReports]_vars

\* ------------------------------------------------------- connection pool
PoolError == Resp(500, "connection pool exhausted")
QueryError == Resp(500, "query failed")

\* the requests that hold a connection: between getconn and putconn
Holding(w) == pool.req[w].pc \in {"execute", "commit", "rollback", "putconn"}

\* a request arrives and its handler calls execute_query
PoolStart(w) ==
    /\ pool.req[w].pc = "idle"
    /\ \E n \in QueriesPerRequest :
          pool' = [pool EXCEPT !.req[w] = [IdleRequest EXCEPT !.pc = "getconn",
                                                                !.queries = n]]
    /\ UNCHANGED <<events, registrations, attendance, now, pending, last, cancelled_ok,
                   att_pending, fb_pending, upd_pending>>

\* a getconn() that waits for a free connection when the pool is exhausted
GetConnection_Blocking(w) ==
    /\ pool.req[w].pc = "getconn"
    /\ \E c \in ConnIds \ pool.used :
          pool' = [pool EXCEPT !.used = @ \cup {c},
                               !.req[w].conn = c,
                               !.req[w].putconn = 0,
                               !.req[w].ended = "",
                               !.req[w].pc = "execute"]
    /\ UNCHANGED <<events, registrations, attendance, now, pending, last, cancelled_ok,
                   att_pending, fb_pending, upd_pending>>

\* get_db_connection: db_manager.get_connection(). getconn() of an exhausted
\* ThreadedConnectionPool raises PoolError at once; connection is still None,
\* so nothing is rolled back or returned and the handler answers 500
GetConnection(w) ==
    /\ pool.req[w].pc = "getconn"
    /\ IF pool.used = ConnIds
       THEN pool' = [pool EXCEPT !.req[w].pc = "respond", !.req[w].resp = PoolError]
       ELSE \E c \in ConnIds \ pool.used :
               pool' = [pool EXCEPT !.used = @ \cup {c},
                                    !.req[w].conn = c,
                                    !.req[w].putconn = 0,
                                    !.req[w].ended = "",
                                    !.req[w].pc = "execute"]
    /\ UNCHANGED <<events, registrations, attendance, now, pending, last, cancelled_ok,
                   att_pending, fb_pending, upd_pending>>

\* execute_query: cursor.execute and the fetch; either may raise
CursorExecute(w) ==
    /\ pool.req[w].pc = "execute"
    /\ \E ok \in BOOLEAN :
          pool' = [pool EXCEPT !.req[w].pc = IF ok THEN "commit" ELSE "rollback"]
    /\ UNCHANGED <<events, registrations, attendance, now, pending, last, cancelled_ok,
                   att_pending, fb_pending, upd_pending>>

\* execute_query: conn.commit(), which may raise
Commit(w) ==
    /\ pool.req[w].pc = "commit"
    /\ \E ok \in BOOLEAN :
          pool' = IF ok
                  THEN [pool EXCEPT !.req[w].pc = "putconn", !.req[w].ended = "commit",
                                    !.req[w].resp = Ok]
                  ELSE [pool EXCEPT !.req[w].pc = "rollback"]
    /\ UNCHANGED <<events, registrations, attendance, now, pending, last, cancelled_ok,
                   att_pending, fb_pending, upd_pending>>

\* a get_db_connection that returns the connection only when no exception
\* passes through it
Rollback_NoReturn(w) ==
    /\ pool.req[w].pc = "rollback"
    /\ pool' = [pool EXCEPT !.req[w].pc = "respond", !.req[w].ended = "rollback",
                            !.req[w].resp = QueryError]
    /\ UNCHANGED <<events, registrations, attendance, now, pending, last, cancelled_ok,
                   att_pending, fb_pending, upd_pending>>

\* the except clauses of execute_query and get_db_connection: conn.rollback()
\* and raise; the finally clause of get_db_connection follows
Rollback(w) ==
    /\ pool.req[w].pc = "rollback"
    /\ pool' = [pool EXCEPT !.req[w].pc = "putconn", !.req[w].ended = "rollback",
                            !.req[w].resp = QueryError]
    /\ UNCHANGED <<events, registrations, attendance, now, pending, last, cancelled_ok,
                   att_pending, fb_pending, upd_pending>>

\* get_db_connection: the finally clause, db_manager.return_connection; the
\* handler goes on to its next execute_query or to its return
ReturnConnection(w) ==
    /\ pool.req[w].pc = "putconn"
    /\ LET r == pool.req[w]
           more == r.ended = "commit" /\ r.queries > 1
       IN pool' = [pool EXCEPT !.used = @ \ {r.conn},
                               !.req[w].putconn = r.putconn + 1,
                               !.req[w].queries = r.queries - 1,
                               !.req[w].conn = IF more THEN NULL ELSE r.conn,
                               !.req[w].pc = IF more THEN "getconn" ELSE "respond"]
    /\ UNCHANGED <<events, registrations, attendance, now, pending, last, cancelled_ok,
                   att_pending, fb_pending, upd_pending>>

\* the handler returns its response
PoolRespond(w) ==
    /\ pool.req[w].pc = "respond"
    /\ pool' = [pool EXCEPT !.req[w] = IdleRequest]
    /\ UNCHANGED <<events, registrations, attendance, now, pending, last, cancelled_ok,
                   att_pending, fb_pending, upd_pending>>

\* the steps of a request that has arrived
PoolStep(w) ==
    \/ GetConnection(w)
    \/ CursorExecute(w)
    \/ Commit(w)
    \/ Rollback(w)
    \/ ReturnConnection(w)
    \/ PoolRespond(w)

NextPool == \E w \in PoolWorkers : PoolStart(w) \/ PoolStep(w)

\* the specification of the pool without the fairness of the threads
SpecPool == InitSeeded /\ [][NextPool]_vars

\* the threads of the server keep running: a request that can take a step
\* takes it
SpecPoolFair == SpecPool /\ \A w \in PoolWorkers : WF_vars(PoolStep(w))

\* ---------------------------------------------------------------- claims
RegisteredRows(event_id) ==
    {r \in registrations : r.event_id = event_id /\ r.status = "registered"}

PairRows(event_id, student_id) ==
    {r \in registrations : r.event_id = event_id /\ r.student_id = student_id}

\* the step in which a call with body d runs register_query and returns
InsertStep(d) == pending[d] > 0 /\ pending' = [pending EXCEPT ![d] = @ - 1]

\* the step in which a call with body d passes every check of register_for_event
PassStep(d) == pending' = [pending EXCEPT ![d] = @ + 1]

\* the step in which a register call returns from its checks (after check_query)
RejectStep == last'.op = "register" /\ last'.step = "check"

\* C1: for every event with a max_capacity, the number of its registrations
\* with status 'registered' is at most that capacity in every reachable state.
C1_CapacityNeverExceeded ==
    \A e \in events :
        e.max_capacity # NULL => Cardinality(RegisteredRows(e.event_id)) <= e.max_capacity

\* C2: for every (event, student) pair at most one registration with status
\* 'registered' exists, under any interleaving of register and cancel calls.
C2_AtMostOneRegistered ==
    \A e \in EventIds, s \in StudentIds :
        Cardinality({r \in PairRows(e, s) : r.status = "registered"}) <= 1

\* a duplicate attempt was just refused for a pair that was registered,
\* cancelled and registered again
C2_Witness ==
    /\ last.op = "register"
    /\ last.resp.code = 409
    /\ \E r1, r2 \in PairRows(last.data.event_id, last.data.student_id) :
           r1.status = "cancelled" /\ r2.status = "registered"

\* C3: when N > C students register concurrently for an event with C free
\* slots, exactly C calls succeed: once no call is in flight and nothing was
\* cancelled, the rows created for the event (one per 201) are at most C, and
\* a call refused after the checks is refused for capacity or as a duplicate.
C3_ExactlyCapacitySucceed ==
    \A e \in events :
        (/\ e.max_capacity # NULL
         /\ InFlight = 0
         /\ \A r \in registrations : r.status = "registered")
        => /\ Cardinality({r \in registrations : r.event_id = e.event_id}) <= e.max_capacity
           /\ (last.op = "register" /\ last.step # "validate"
               /\ last.data.event_id = e.event_id /\ e.status = "active"
               /\ (e.registration_deadline = NULL \/ now <= e.registration_deadline))
              => last.resp \in {Created, CapacityExceeded, DuplicateRegistration}

\* C4: of two concurrent register calls for one (event, student) pair that
\* both passed the checks, the first insert commits one row and answers 201,
\* the other changes nothing and is answered 409.
C4_LostRaceIsConflict ==
    [][\A d \in ValidInputs :
        InsertStep(d) =>
            IF \E r \in PairRows(d.event_id, d.student_id) : r.status = "registered"
            THEN /\ last'.resp = DuplicateRegistration
                 /\ registrations' = registrations
            ELSE /\ last'.resp = Created
                 /\ Cardinality(registrations') = Cardinality(registrations) + 1
                 /\ registrations \subseteq registrations']_vars

\* the loser of a race was just answered 409: the event is full with the
\* winner's row as its newest, so the loser had read it before that insert
C4_Witness ==
    /\ last.op = "register"
    /\ last.resp = DuplicateRegistration
    /\ Cardinality(registrations) = MaxCap
    /\ \A r \in registrations : r.status = "registered"
    /\ \E e \in events : e.event_id = last.data.event_id /\ e.max_capacity = MaxCap
    /\ \E r \in registrations : /\ r.registration_id = MaxCap
                                /\ r.student_id = last.data.student_id
                                /\ r.event_id = last.data.event_id

\* C5: after a student's registration was cancelled, a new register call for
\* the pair inserts a row with a fresh identifier and status 'registered' and
\* leaves every earlier row as it was; while the pair has a 'registered' row,
\* a register call for it does not succeed.
C5_ReRegisterCreatesNewRow ==
    [][\A d \in ValidInputs :
        InsertStep(d) =>
            LET pair == PairRows(d.event_id, d.student_id)
            IN IF \E r \in pair : r.status = "registered"
               THEN last'.resp.code # 201 /\ registrations' = registrations
               ELSE /\ last'.resp.code = 201
                    /\ \E n \in registrations' :
                          /\ registrations' = registrations \cup {n}
                          /\ \A r \in registrations : r.registration_id # n.registration_id
                          /\ n.status = "registered"
                          /\ n.event_id = d.event_id
                          /\ n.student_id = d.student_id]_vars

\* a student with a cancelled row was just registered again in a newer row
C5_Witness ==
    /\ last.op = "register"
    /\ last.resp.code = 201
    /\ \E old, new \in PairRows(last.data.event_id, last.data.student_id) :
          /\ old.status = "cancelled"
          /\ new.status = "registered"
          /\ new.registration_id > old.registration_id

\* C6: register_for_event reports the first failing precondition in the order
\* event not found, event not active, deadline passed, capacity exceeded,
\* duplicate registration.
C6_FirstFailingIsReported ==
    [][/\ RejectStep =>
            LET evs == {e \in events : e.event_id = last'.data.event_id}
            IN /\ evs = {} => last'.resp = EventNotFound
               /\ \A e \in evs :
                    LET inactive == e.status # "active"
                        late == e.registration_deadline # NULL /\ now > e.registration_deadline
                        full == e.max_capacity # NULL
                                /\ Cardinality(RegisteredRows(e.event_id)) >= e.max_capacity
                    IN /\ inactive => last'.resp = EventInactive
                       /\ (~inactive /\ late) => last'.resp = DeadlinePassed
                       /\ (~inactive /\ ~late /\ full) => last'.resp = CapacityExceeded
                       /\ inactive \/ late \/ full
       /\ \A d \in ValidInputs :
            (InsertStep(d) \/ PassStep(d)) => last'.resp \notin
                {EventNotFound, EventInactive, DeadlinePassed, CapacityExceeded}
       /\ \A d \in ValidInputs :
            PassStep(d) => \E e \in events :
                /\ e.event_id = d.event_id
                /\ e.status = "active"
                /\ e.registration_deadline = NULL \/ now <= e.registration_deadline
                /\ e.max_capacity = NULL
                   \/ Cardinality(RegisteredRows(e.event_id)) < e.max_capacity]_vars

\* a call for a cancelled, full event past its deadline, by a student who is
\* registered for it, was just answered 'not active'
C6_Witness ==
    /\ last.op = "register"
    /\ last.resp = EventInactive
    /\ \E e \in events :
          /\ e.event_id = last.data.event_id
          /\ e.status = "cancelled"
          /\ e.registration_deadline # NULL /\ now > e.registration_deadline
          /\ e.max_capacity # NULL
          /\ Cardinality(RegisteredRows(e.event_id)) >= e.max_capacity
    /\ \E r \in RegisteredRows(last.data.event_id) : r.student_id = last.data.student_id

\* C7: for an active event with deadline D and free capacity, a register call
\* at time now is not refused for the deadline when now = D and is refused
\* with 'deadline passed' when now > D.
C7_DeadlineBoundary ==
    [][\A e \in events :
        (/\ e.status = "active"
         /\ e.registration_deadline # NULL
         /\ e.max_capacity = NULL \/ Cardinality(RegisteredRows(e.event_id)) < e.max_capacity)
        => /\ (RejectStep /\ last'.data.event_id = e.event_id) =>
                  /\ now > e.registration_deadline
                  /\ last'.resp = DeadlinePassed
           /\ \A d \in ValidInputs : (PassStep(d) /\ d.event_id = e.event_id) =>
                  now <= e.registration_deadline]_vars

\* a call made and answered at now = D was admitted
C7_Witness ==
    /\ last.op = "register"
    /\ last.resp.code = 201
    /\ now = Deadline
    /\ \E e \in events : /\ e.event_id = last.data.event_id
                         /\ e.registration_deadline = now

\* C8: a register call that ends in a failure leaves the stored events,
\* registrations and attendance rows as they were.
C8_FailureChangesNothing ==
    [][/\ (last'.op = "register" /\ last'.resp.code # 201) => db' = db
       /\ \A d \in ValidInputs : PassStep(d) => db' = db]_vars

\* a call for a full event with stored registrations was just refused
C8_Witness ==
    /\ last.op = "register"
    /\ last.resp = CapacityExceeded
    /\ registrations # {}
    /\ \A r \in registrations : r.status = "registered"

\* C9: cancelled registrations are not counted in the capacity check: a call
\* is refused for capacity only when the 'registered' rows of the event alone
\* reach max_capacity.
C9_CancelledNotCounted ==
    [][(RejectStep /\ last'.resp = CapacityExceeded) =>
         \E e \in events :
            /\ e.event_id = last'.data.event_id
            /\ e.max_capacity # NULL
            /\ Cardinality(RegisteredRows(e.event_id)) >= e.max_capacity]_vars

\* max_capacity 2: the first registration is cancelled, the second stands and
\* a third student was just registered in row 3, so the count is 2 again
C9_Witness ==
    /\ last.op = "register"
    /\ last.resp.code = 201
    /\ InFlight = 0
    /\ \E e \in events :
          /\ e.event_id = last.data.event_id
          /\ e.max_capacity = 2
          /\ Cardinality(RegisteredRows(e.event_id)) = 2
    /\ \E a, b, c \in registrations :
          /\ a.registration_id = 1 /\ a.status = "cancelled"
          /\ b.registration_id = 2 /\ b.status = "registered"
          /\ c.registration_id = 3 /\ c.status = "registered"
          /\ c.student_id = last.data.student_id
          /\ Cardinality({a.student_id, b.student_id, c.student_id}) = 3

\* C10: cancel_registration on a 'registered' row sets it to 'cancelled' with
\* a cancellation time and a reason; on a missing or cancelled row it answers
\* 404 and changes nothing; exactly one cancel call per registration succeeds.
C10_CancelOnce ==
    /\ [](\A id \in RegIds :
            /\ cancelled_ok[id] <= 1
            /\ \A r \in registrations : r.registration_id = id =>
                  (r.status = "cancelled" <=> cancelled_ok[id] = 1))
    /\ [][last'.op = "cancel_registration" =>
            LET hit == {r \in registrations : r.registration_id = last'.registration_id
                                              /\ r.status = "registered"}
            IN IF hit = {}
               THEN last'.resp = RegistrationNotFound /\ db' = db /\ cancelled_ok' = cancelled_ok
               ELSE /\ last'.resp.code = 200
                    /\ events' = events /\ attendance' = attendance
                    /\ \A r \in registrations \ hit : r \in registrations'
                    /\ \A r \in hit : \E c \in registrations' :
                          /\ c.registration_id = r.registration_id
                          /\ c.event_id = r.event_id /\ c.student_id = r.student_id
                          /\ c.status = "cancelled"
                          /\ c.cancelled_at = now
                          /\ c.cancellation_reason # ""
                    /\ Cardinality(registrations') = Cardinality(registrations)]_vars

\* a second cancel of an already cancelled registration was just answered 404
C10_Witness ==
    /\ last.op = "cancel_registration"
    /\ last.resp.code = 404
    /\ cancelled_ok[last.registration_id] = 1
    /\ \E r \in registrations : /\ r.registration_id = last.registration_id
                                /\ r.status = "cancelled"
                                /\ r.cancelled_at # NULL

\* C11: no step of the API turns a 'cancelled' registration back into
\* 'registered': every stored registration keeps its identifier, and its
\* status either stays as it is or goes from 'registered' to 'cancelled'.
C11_NoReactivation ==
    [][\A r \in registrations :
         \E n \in registrations' :
            /\ n.registration_id = r.registration_id
            /\ n.event_id = r.event_id /\ n.student_id = r.student_id
            /\ \/ n.status = r.status
               \/ r.status = "registered" /\ n.status = "cancelled"]_vars

\* a student whose first registration was cancelled at time 0 registered
\* again later: the old row is still 'cancelled', untouched since
C11_Witness ==
    /\ now = MaxTime
    /\ last.op = "register"
    /\ last.step = "insert"
    /\ \E old, new \in PairRows(last.data.event_id, last.data.student_id) :
          /\ old.status = "cancelled" /\ old.cancelled_at = 0
          /\ old.cancellation_reason = "Cancelled by user"
          /\ new.status = "registered"
          /\ new.registration_id # old.registration_id

\* C13: a register call never inserts a registration for an event whose
\* status is 'cancelled' at the time the insert commits, whatever the
\* interleaving with cancel_event.
C13_NoInsertForCancelledEvent ==
    [][\A d \in ValidInputs :
         (InsertStep(d) /\ registrations' # registrations) =>
             \E e \in events : e.event_id = d.event_id /\ e.status = "active"]_vars

\* C14: the reads and the write of a register call form one transaction: as
\* long as every call with body d that has read stays before its write, no
\* other request's write takes effect on the stored rows.
C14_ReadAndWriteAreOneTransaction ==
    [][\A d \in ValidInputs :
         (pending[d] > 0 /\ pending'[d] = pending[d]) => db' = db]_vars

\* the step in which call c of mark_attendance runs its existing_attendance query
AttExistingStep(c) ==
    c.step = "existing" /\ att_pending[c] > 0 /\ att_pending'[c] = att_pending[c] - 1

\* the step in which call c of mark_attendance runs attendance_query and returns
AttInsertStep(c) ==
    c.step = "insert" /\ att_pending[c] > 0 /\ att_pending'[c] = att_pending[c] - 1

\* the step in which a mark_attendance call passes check_query
AttPassStep(c) ==
    c.step = "existing" /\ att_pending'[c] = att_pending[c] + 1

\* C15: every registration has no or one attendance row in every reachable
\* state; a mark_attendance call that finds a row for its registration is
\* answered 409 and inserts nothing, and a call whose insert finds none (as
\* when the calls run one after the other) stores one row and is answered 201.
C15_OneAttendancePerRegistration ==
    /\ [](\A id \in RegIds : Cardinality(existing_attendance(attendance, id)) <= 1)
    /\ [][\A c \in AttendanceCalls :
            /\ AttExistingStep(c) =>
                 IF existing_attendance(attendance, c.registration_id) # {}
                 THEN /\ last'.resp = AlreadyCheckedIn
                      /\ attendance' = attendance
                      /\ AttInFlight' = AttInFlight - 1
                 ELSE last' = NoCall /\ attendance' = attendance
            /\ (AttInsertStep(c)
                /\ existing_attendance(attendance, c.registration_id) = {}) =>
                 /\ last'.resp = Created
                 /\ \E a \in attendance' :
                       /\ attendance' = attendance \cup {a}
                       /\ a \notin attendance
                       /\ a.registration_id = c.registration_id]_vars

\* the second of two sequential calls for a registration was just answered 409
C15_Witness ==
    /\ last.op = "mark_attendance"
    /\ last.resp = AlreadyCheckedIn
    /\ AttInFlight = 0
    /\ Cardinality(attendance) = 1
    /\ \E a \in attendance : a.registration_id = last.registration_id

\* C16: of two concurrent mark_attendance calls for one registration that
\* both found no attendance row, the one whose insert commits second stores
\* nothing and is answered 409 'already checked in'.
C16_LostRaceIsAlreadyCheckedIn ==
    [][\A c \in AttendanceCalls :
         (AttInsertStep(c) /\ existing_attendance(attendance, c.registration_id) # {}) =>
             /\ last'.resp = AlreadyCheckedIn
             /\ attendance' = attendance]_vars

\* C17: a mark_attendance call for a registration that does not exist or is
\* 'cancelled' is answered 404 and neither inserts nor goes on to insert; a
\* call that goes on found a 'registered' row.
C17_NotFoundForMissingOrCancelled ==
    [][/\ (last'.op = "mark_attendance" /\ last'.step = "check"
           /\ last'.registration_id # Absent) =>
              /\ last'.resp = RegistrationNotActive
              /\ last'.resp.code = 404
              /\ ~\E r \in registrations : /\ r.registration_id = last'.registration_id
                                           /\ r.status = "registered"
              /\ db' = db
              /\ att_pending' = att_pending
       /\ \A c \in AttendanceCalls :
            AttPassStep(c) =>
              \E r \in registrations : /\ r.registration_id = c.registration_id
                                       /\ r.status = "registered"]_vars

\* a call for a registration that was cancelled was just answered 404
C17_Witness ==
    /\ last.op = "mark_attendance"
    /\ last.resp = RegistrationNotActive
    /\ attendance = {}
    /\ \E r \in registrations : /\ r.registration_id = last.registration_id
                                /\ r.status = "cancelled"

\* the step in which a submit_feedback call with body d runs feedback_query
FbUpdateStep(d) == fb_pending[d] > 0 /\ fb_pending'[d] = fb_pending[d] - 1

\* the rating is a whole number in MinRating..MaxRating
RatingInRange(rating) ==
    /\ rating % Tenths = 0
    /\ rating \div Tenths \in MinRating..MaxRating

\* the comment, lower-cased, contains one of the inappropriate words
HasInappropriateWord(comment) ==
    \E word \in inappropriate_words : Contains(lower(comment), word)

\* C18: a submit_feedback call for an existing attendance record with a rating
\* that is not an integer in 1..5 is answered 'invalid rating', one with such
\* a rating (and a comment the validator accepts) succeeds, and the stored
\* feedback_rating is always unset or an integer in 1..5.
C18_RatingInRange ==
    /\ \A a \in attendance :
          a.feedback_rating = NULL \/ a.feedback_rating \in MinRating..MaxRating
    /\ (/\ last.op = "submit_feedback"
        /\ last.feedback.rating # NULL
        /\ \E a \in attendance : a.attendance_id = last.feedback.attendance_id) =>
          IF RatingInRange(last.feedback.rating)
          THEN (Len(last.feedback.comment) <= MaxCommentLen
                /\ ~HasInappropriateWord(last.feedback.comment)) => last.resp = Ok
          ELSE last.resp = InvalidRating

\* C19: the feedback_query of a submit_feedback call overwrites rating,
\* comment and submission time of its attendance row together with the values
\* of that one call (the rating as the integer column takes it) and leaves
\* every other row alone; a step that is not a feedback_query, a failed call
\* included, leaves the stored feedback as it was.
C19_LastWriteWins ==
    [][/\ \A d \in ValidFeedback :
            FbUpdateStep(d) =>
              /\ last'.resp = Ok
              /\ \A a \in attendance :
                    IF a.attendance_id = d.attendance_id
                    THEN [a EXCEPT !.feedback_rating = IntegerColumn(d.rating),
                                   !.feedback_comment = d.comment,
                                   !.feedback_submitted_at = now] \in attendance'
                    ELSE a \in attendance'
              /\ Cardinality(attendance') = Cardinality(attendance)
       /\ (\A d \in ValidFeedback : ~FbUpdateStep(d)) =>
              \A a \in attendance : a \in attendance'
       /\ (last'.op = "submit_feedback" /\ last'.resp.code # 200) =>
              attendance' = attendance]_vars

\* a call with rating 0 was just refused and the feedback stored by an
\* earlier call (rating 5, comment 'Good') is still in place
C19_Witness ==
    /\ last.op = "submit_feedback"
    /\ last.resp = InvalidRating
    /\ last.feedback.comment = NoComment
    /\ \E a \in attendance : /\ a.attendance_id = last.feedback.attendance_id
                             /\ a.feedback_rating = MaxRating
                             /\ a.feedback_comment = Good

\* C20: a submit_feedback call with an existing attendance id, an integer
\* rating in 1..5 and a comment within the length ceiling succeeds, whatever
\* the text of the comment is.
C20_AnyCommentSucceeds ==
    (/\ last.op = "submit_feedback"
     /\ \E a \in attendance : a.attendance_id = last.feedback.attendance_id
     /\ last.feedback.rating # NULL
     /\ RatingInRange(last.feedback.rating)
     /\ Len(last.feedback.comment) <= MaxCommentLen)
    => last.resp = Ok

\* C20 (amended): a submit_feedback call with an existing attendance id, an
\* integer rating in 1..5 and a comment within the length ceiling succeeds and
\* overwrites the feedback unless the lower-cased comment contains 'spam',
\* 'hate' or 'abuse'; then it is answered 400 'inappropriate content' and the
\* stored rows are unchanged.
C20_SucceedsUnlessInappropriate ==
    [][(/\ last'.op = "submit_feedback"
        /\ last = NoCall
        /\ \E a \in attendance : a.attendance_id = last'.feedback.attendance_id
        /\ last'.feedback.rating # NULL
        /\ RatingInRange(last'.feedback.rating)
        /\ Len(last'.feedback.comment) <= MaxCommentLen)
       => IF HasInappropriateWord(last'.feedback.comment)
          THEN /\ last'.resp = InappropriateComment
               /\ db' = db
          ELSE /\ last'.resp = Ok
               /\ \E a \in attendance' :
                     /\ a.attendance_id = last'.feedback.attendance_id
                     /\ a.feedback_rating = last'.feedback.rating \div Tenths
                     /\ a.feedback_comment = last'.feedback.comment]_vars

\* a call with rating 5 and the comment 'whatever' for an existing attendance
\* record was just refused: 'whatever' contains 'hate'
C20_Witness ==
    /\ last.op = "submit_feedback"
    /\ last.resp = InappropriateComment
    /\ last.feedback.comment = Whatever
    /\ last.feedback.rating = MaxRating * Tenths
    /\ \E a \in attendance : a.attendance_id = last.feedback.attendance_id

\* C12: the status of an event is one-way: it is 'active' or 'cancelled' in
\* every reachable state, and no step of create_event, update_event or
\* cancel_event gives an event that is 'cancelled' another status.
C12_StatusOneWay ==
    /\ [](\A e \in events : e.status \in {"active", "cancelled"})
    /\ [][\A e \in events :
            e.status = "cancelled" =>
                \A n \in events' : n.event_id = e.event_id => n.status = "cancelled"]_vars

\* C21: every stored attendance row has a check_in_method among manual,
\* qr_code and rfid, and a mark_attendance call that names another method
\* does not get past validation to the queries and the insert.
C21_MethodValidated ==
    /\ [](\A a \in attendance : a.check_in_method \in valid_methods)
    /\ [][\A c \in AttendanceCalls :
            c.check_in_method \notin valid_methods => ~AttPassStep(c)]_vars

\* C22: every stored event ends strictly after it starts, and a stored
\* registration deadline is not later than the stored start time, in every
\* state that create_event and update_event calls reach.
C22_EventTimesOrdered ==
    \A e \in events :
        /\ e.end_datetime > e.start_datetime
        /\ e.registration_deadline # NULL => e.registration_deadline <= e.start_datetime

\* C23: cancel_event changes nothing but the status of the event it
\* addresses: every other event, every registration (those of the event
\* included) and every attendance row is as before.
C23_CancelEventDoesNotCascade ==
    [][last'.op = "cancel_event" =>
         /\ registrations' = registrations
         /\ attendance' = attendance
         /\ \A e \in events :
               IF e.event_id = last'.data.event_id /\ e.status = "active"
               THEN /\ [e EXCEPT !.status = "cancelled"] \in events'
                    /\ last'.resp = Ok
               ELSE e \in events'
         /\ Cardinality(events') = Cardinality(events)]_vars

\* an event with a 'registered' registration that was checked in was just
\* cancelled; the registration and its attendance row are there as before
C23_Witness ==
    /\ last.op = "cancel_event"
    /\ last.resp = Ok
    /\ \E r \in registrations :
          /\ r.event_id = last.data.event_id
          /\ r.status = "registered"
          /\ \E a \in attendance : a.registration_id = r.registration_id
    /\ \E e \in events : e.event_id = last.data.event_id /\ e.status = "cancelled"

\* C24: every request that has arrived reaches its response; a request that
\* asks for a connection while all MaxConn connections are checked out does
\* not wait: its next step is a server-error response, and that step leaves
\* the set of checked-out connections and every other request as they were.
C24_ExhaustedPoolAnswersServerError ==
    /\ \A w \in PoolWorkers : (pool.req[w].pc # "idle") ~> (pool.req[w].pc = "respond")
    /\ [][\A w \in PoolWorkers :
            (pool.req[w].pc = "getconn" /\ pool.used = ConnIds /\ pool'.req[w] # pool.req[w])
            => /\ pool'.req[w].pc = "respond"
               /\ pool'.req[w].resp.code = 500
               /\ pool'.req[w].conn = NULL
               /\ pool'.used = pool.used
               /\ \A v \in PoolWorkers \ {w} : pool'.req[v] = pool.req[v]]_vars

\* all connections are held by other requests and one more request has been
\* answered with the server error
C24_Witness ==
    \E w \in PoolWorkers :
        /\ pool.req[w].pc = "respond"
        /\ pool.req[w].resp = PoolError
        /\ pool.used = ConnIds
        /\ \A v \in PoolWorkers \ {w} : Holding(v)

\* C30: a connection is checked out exactly while a request is between its
\* getconn and its putconn, no two requests hold the same connection, a
\* request gives its connection back once and only after a commit or a
\* rollback, at most MaxConn connections are checked out, and none is checked
\* out when no request is in flight.
C30_ConnectionReturnedExactlyOnce ==
    /\ Cardinality(pool.used) <= MaxConn
    /\ pool.used = {pool.req[w].conn : w \in {x \in PoolWorkers : Holding(x)}}
    /\ \A v, w \in PoolWorkers :
          (Holding(v) /\ Holding(w) /\ pool.req[v].conn = pool.req[w].conn) => v = w
    /\ \A w \in PoolWorkers :
          LET r == pool.req[w]
          IN /\ r.putconn <= 1
             /\ Holding(w) => r.putconn = 0 /\ r.conn \in ConnIds
             /\ r.pc = "putconn" => r.ended \in {"commit", "rollback"}
             /\ (r.pc = "respond" /\ r.conn # NULL)
                => r.putconn = 1 /\ r.ended \in {"commit", "rollback"}
    /\ (\A w \in PoolWorkers : pool.req[w].pc = "idle") => pool.used = {}

\* a request whose query raised has rolled back and given its connection
\* back, while another request has committed and given its own back
C30_Witness ==
    \E v, w \in PoolWorkers :
        /\ pool.req[v].pc = "respond" /\ pool.req[v].ended = "rollback"
        /\ pool.req[v].putconn = 1
        /\ pool.req[w].pc = "respond" /\ pool.req[w].ended = "commit"
        /\ pool.req[w].putconn = 1
        /\ pool.used = {}

Abs(x) == IF x < 0 THEN -x ELSE x

\* the sum of the ratings of a set of attendance rows that all carry one
RECURSIVE RatingSum(_)
RatingSum(rows) ==
    IF rows = {} THEN 0
    ELSE LET a == CHOOSE x \in rows : TRUE
         IN a.feedback_rating + RatingSum(rows \ {a})

\* the attendance rows of an event that carry a rating
RatedRows(event_id) ==
    {a \in attendance :
        /\ a.feedback_rating # NULL
        /\ \E r \in registrations : /\ r.registration_id = a.registration_id
                                    /\ r.event_id = event_id}

\* a response of get_event or get_event_stats for an event that exists
EventReported ==
    /\ last.op \in {"get_event", "get_event_stats"}
    /\ last.resp = Ok

\* C25: in a report of an event, feedback_count is the number of attendance
\* rows of the event with a rating, and avg_rating is unset when there is
\* none and otherwise the hundredth nearest to the sum of those ratings
\* divided by their number.
C25_AverageOfNonNullRatings ==
    EventReported =>
        LET rated == RatedRows(last.data.event_id)
            n == Cardinality(rated)
        IN /\ last.report.feedback_count = n
           /\ n = 0 => last.report.avg_rating = NULL
           /\ n > 0 => /\ last.report.avg_rating # NULL
                       /\ 2 * Abs(100 * RatingSum(rated) - last.report.avg_rating * n) <= n

\* the ratings 5, 4, 5 and one attendance row without a rating are reported
\* as 4.67 from 3 ratings
C25_Witness ==
    /\ EventReported
    /\ {a.feedback_rating : a \in attendance} = {NULL, 4, 5}
    /\ last.report.attendance_count = 4
    /\ last.report.feedback_count = 3
    /\ last.report.avg_rating = 467

\* C26: the activity level of a student report is inactive for 0 or unset
\* attended events, moderately_active for 1 to 2, active for 3 to 4 and
\* highly_active from 5 on.
C26_ActivityLevel ==
    last.op = "student_activity" =>
        LET n == last.report.events_attended
        IN /\ n \in {NULL, 0} => last.report.activity_level = "inactive"
           /\ n \in 1..2 => last.report.activity_level = "moderately_active"
           /\ n \in 3..4 => last.report.activity_level = "active"
           /\ n >= 5 => last.report.activity_level = "highly_active"

\* a report for a student with more than 5 attended events has been answered
C26_Witness ==
    /\ last.op = "student_activity"
    /\ last.report.events_attended = MaxAttended
    /\ last.report.activity_level = "highly_active"

\* C28: no attendance row belongs to a registration whose status is
\* 'cancelled'.
C28_NoAttendanceForCancelled ==
    \A a \in attendance :
        \A r \in registrations :
            r.registration_id = a.registration_id => r.status # "cancelled"

\* C29: the attendance_percentage of every report of an event lies between
\* 0 and 100 (kept in hundredths of a percent).
C29_PercentageWithinBounds ==
    EventReported =>
        /\ last.report.attendance_percentage >= 0
        /\ last.report.attendance_percentage <= 100 * 100

\* C27: when the calls run one after the other, every event with a
\* max_capacity has at most that many 'registered' registrations.
C27_SequentialCapacityRespected ==
    \A e \in events :
        e.max_capacity # NULL =>
            Cardinality({r \in registrations : /\ r.event_id = e.event_id
                                               /\ r.status = "registered"})
                <= e.max_capacity

====
